---- MODULE Spec2Model ----
(***************************************************************************)
(* The generation front end of the DiffusionBee Tauri port: the generation *)
(* and settings stores (stores/imageGeneration.ts), the ImageGenerator     *)
(* component's generate / cancel handlers, DimensionInput's fields and     *)
(* presets, the ProgressTracker component's poll timer, time estimate and  *)
(* cancel handler, the settings actions and the Settings panel's save and *)
(* reset handlers, together with the                                       *)
(* asynchronous Tauri commands they invoke (generate_image,                *)
(* cancel_generation, get_generation_progress, get_settings,               *)
(* save_settings).  A command that has been invoked and whose promise has  *)
(* not settled yet is a record in one of the collections genCalls,         *)
(* cancelCalls, pollCalls, saveCalls (loadCalls counts the get_settings    *)
(* calls); the promise settling (resolve or reject) is an action of its    *)
(* own, so every interleaving of the handlers' continuations is a          *)
(* behaviour.                                                              *)
(***************************************************************************)
EXTENDS Integers, Sequences, FiniteSets, Bags, TLC

VARIABLES
    params,            \* generationStore.params
    isGenerating,      \* generationStore.isGenerating
    progress,          \* generationStore.progress
    currentResult,     \* generationStore.currentResult
    error,             \* generationStore.error
    history,           \* generationStore.history
    prompt,            \* ImageGenerator: let prompt (bound to the textarea)
    progressInterval,  \* ProgressTracker: let progressInterval (TRUE: a timer exists)
    genCalls,          \* pending invoke('generate_image') promises
    cancelCalls,       \* pending invoke('cancel_generation') promises (a bag)
    pollCalls,         \* pending invoke('get_generation_progress') promises (a bag)
    nextGen,           \* number of generate_image calls issued so far
    workerStep,        \* backend: step reached by the generation it last started
    ended,             \* history: the generations whose end the store has shown
    startTime,         \* ProgressTracker: let startTime
    estimatedTimeRemaining, \* ProgressTracker: let estimatedTimeRemaining
    width,             \* DimensionInput: width (bound to the width field)
    height,            \* DimensionInput: height (bound to the height field)
    now,               \* Date.now()
    console,           \* the messages written with console.error
    settingsStore,     \* settingsStore
    persisted,         \* backend: the settings save_settings stored last
    loadCalls,         \* number of pending invoke('get_settings') promises
    saveCalls,         \* pending invoke('save_settings') promises (a bag)
    nextSave,          \* number of save_settings calls issued so far
    lastSet,           \* history: the value updateSetting gave last to each key
    isSaving,          \* Settings.svelte: isSaving
    panelError,        \* Settings.svelte: error
    success,           \* Settings.svelte: success
    liveTimers,        \* window: interval timers set and not cleared
    mounted,           \* ProgressTracker.svelte is mounted
    nextResult         \* history: number of results given to setResult directly

vars == <<params, isGenerating, progress, currentResult, error, history, prompt,
          progressInterval, genCalls, cancelCalls, pollCalls, nextGen,
          workerStep, ended, startTime, estimatedTimeRemaining, width, height,
          now, console, settingsStore, persisted, loadCalls, saveCalls, nextSave,
          lastSet, isSaving, panelError, success, liveTimers, mounted,
          nextResult>>

storeVars == <<params, isGenerating, progress, currentResult, error, history>>

\* what the components derive from the store when it is published
viewVars == <<progressInterval, startTime, estimatedTimeRemaining, width, height,
             liveTimers>>

settingsVars == <<settingsStore, persisted, loadCalls, saveCalls, nextSave,
                  lastSet>>

\* the messages and the busy flag of the Settings panel
panelVars == <<isSaving, panelError, success>>

-----------------------------------------------------------------------------
(* Bounds of the model *)

MaxGen == 2          \* generate_image calls issued in one behaviour
MaxCancel == 1       \* cancel_generation calls pending at one time
MaxPoll == 2         \* get_generation_progress calls pending at one time
MaxTicks == 3        \* poll intervals that elapse in one behaviour
MaxSave == 3
\* results given to setResult in one behaviour of the store's interface
MaxResults == 51         \* save_settings calls issued in one behaviour

(* Program constants *)

HistoryLimit == 50           \* setResult: .slice(0, 50)
DefaultInferenceSteps == 20  \* defaultParams.num_inference_steps
DefaultDimension == 512      \* defaultParams.img_width / img_height
RequestInferenceSteps == 20  \* handleGenerate: num_inference_steps: 20
PollInterval == 500          \* startProgressPolling: setInterval(..., 500)
MinDimension == 256          \* validateDimension: num >= 256
MaxDimension == 1024         \* validateDimension: num <= 1024

Null == "null"

\* what the user types into the prompt textarea
Prompts == {<<>>, <<" ">>, <<" ", "a", " ">>}

InferenceStepChoices == {10, DefaultInferenceSteps}

\* the steps at which the backend's progress is sampled
WorkerSteps == {0, RequestInferenceSteps}

ImagePaths == <<"/out/1.png", "/out/2.png", "/out/3.png", "/out/4.png">>

\* the n-th image the store is given
ImagePath(n) == "/out/" \o ToString(n) \o ".png"

GenerateImageError == "generate_image failed"
CancelGenerationError == "cancel_generation failed"

Min(a, b) == IF a < b THEN a ELSE b

\* Date.now() when the page is mounted
StartClock == 1000

\* startTime = null; like every time it is tested only with !startTime
NoTime == 0

\* settingsStore's initial value, and resetToDefaults' defaultSettings
DefaultSettings ==
    [default_width |-> 512, default_height |-> 512,
     default_inference_steps |-> 20, output_directory |-> <<>>]

-----------------------------------------------------------------------------
(* String.prototype.trim on a sequence of characters *)

RECURSIVE TrimStart(_)
TrimStart(s) ==
    IF s # <<>> /\ Head(s) = " " THEN TrimStart(Tail(s)) ELSE s

RECURSIVE TrimEnd(_)
TrimEnd(s) ==
    IF s # <<>> /\ s[Len(s)] = " " THEN TrimEnd(SubSeq(s, 1, Len(s) - 1)) ELSE s

\* a trim that removes nothing
TrimNothing(s) == s

Trim(s) == TrimEnd(TrimStart(s))

-----------------------------------------------------------------------------
(* generationActions: each is a function from the store to the new store. *)
(* The store is the record of its six fields.                             *)

defaultParams ==
    [prompt |-> <<>>, img_width |-> DefaultDimension,
     img_height |-> DefaultDimension, num_imgs |-> 1,
     num_inference_steps |-> DefaultInferenceSteps]

Store ==
    [params |-> params, isGenerating |-> isGenerating, progress |-> progress,
     currentResult |-> currentResult, error |-> error, history |-> history]

updateDimension(store, dimension, value) ==
    [store EXCEPT !.params =
        [k \in DOMAIN store.params |->
            IF (dimension = "width" /\ k = "img_width")
                  \/ (dimension = "height" /\ k = "img_height")
            THEN value ELSE store.params[k]]]

updateParams(store, newParams) ==
    [store EXCEPT !.params =
        [k \in DOMAIN store.params |->
            IF k \in DOMAIN newParams THEN newParams[k] ELSE store.params[k]]]

\* startGeneration that also puts the parameters back to their defaults
startGenerationFromDefaults(store) ==
    [store EXCEPT !.params = defaultParams,
                  !.isGenerating = TRUE,
                  !.error = Null,
                  !.progress = [current_step |-> 0,
                                total_steps |-> DefaultInferenceSteps,
                                status |-> "Initializing..."]]

\* startGeneration without the reset of error and progress
startGenerationKeepsOutcome(store) ==
    [store EXCEPT !.isGenerating = TRUE]

startGeneration(store) ==
    [store EXCEPT !.isGenerating = TRUE,
                  !.error = Null,
                  !.progress = [current_step |-> 0,
                                total_steps |-> store.params.num_inference_steps,
                                status |-> "Initializing..."]]

\* updateProgress that never lets current_step go back
updateProgressMonotone(store, p) ==
    [store EXCEPT !.progress =
        IF p.current_step < store.progress.current_step
        THEN [p EXCEPT !.current_step = store.progress.current_step]
        ELSE p]

updateProgress(store, p) ==
    [store EXCEPT !.progress = p]

\* setResult without the slice
setResultKeepsAll(store, result) ==
    [store EXCEPT !.isGenerating = FALSE,
                  !.currentResult = result,
                  !.history = <<result>> \o store.history]

setResult(store, result) ==
    [store EXCEPT !.isGenerating = FALSE,
                  !.currentResult = result,
                  !.history = SubSeq(<<result>> \o store.history, 1,
                                     Min(HistoryLimit, Len(store.history) + 1))]

\* setError that leaves the generation running
setErrorStillGenerating(store, err) ==
    [store EXCEPT !.error = err]

setError(store, err) ==
    [store EXCEPT !.isGenerating = FALSE,
                  !.error = err]

\* reset that also empties the history
resetClearsHistory(store) ==
    [store EXCEPT !.params = defaultParams,
                  !.isGenerating = FALSE,
                  !.error = Null,
                  !.progress = [current_step |-> 0, total_steps |-> 20,
                                status |-> "Ready"],
                  !.history = <<>>]

reset(store) ==
    [store EXCEPT !.params = defaultParams,
                  !.isGenerating = FALSE,
                  !.error = Null,
                  !.progress = [current_step |-> 0, total_steps |-> 20,
                                status |-> "Ready"]]

\* ProgressTracker restarts the timer on every publish of a running store
startsPollingAlways(store) == mounted /\ store.isGenerating

\* ProgressTracker's reactive statement takes its first branch
startsPolling(store) == mounted /\ store.isGenerating /\ ~progressInterval

\* ProgressTracker's reactive statement takes its second branch
stopsPolling(store) == mounted /\ ~store.isGenerating /\ progressInterval

\* generationStore.update(fn) by a handler that leaves estimatedTimeRemaining
\* at `estimate`, followed by the components' reactive statements, which
\* Svelte runs before the next event is handled: ProgressTracker (while it
\* is mounted) starts or stops polling, DimensionInput takes width and
\* height from the store.
PublishWith(store, estimate) ==
    /\ params' = store.params
    /\ isGenerating' = store.isGenerating
    /\ progress' = store.progress
    /\ currentResult' = store.currentResult
    /\ error' = store.error
    /\ history' = store.history
    /\ progressInterval' =
          IF startsPolling(store) THEN TRUE       \* startProgressPolling
          ELSE IF stopsPolling(store) THEN FALSE  \* stopProgressPolling
          ELSE progressInterval
    /\ liveTimers' =
          IF startsPolling(store) THEN liveTimers + 1     \* setInterval
          ELSE IF stopsPolling(store) THEN liveTimers - 1 \* clearInterval
          ELSE liveTimers
    /\ startTime' =
          IF startsPolling(store) THEN now
          ELSE IF stopsPolling(store) THEN NoTime
          ELSE startTime
    /\ estimatedTimeRemaining' =
          IF stopsPolling(store) /\ ~startsPolling(store) THEN <<>> ELSE estimate
    /\ width' = store.params.img_width
    /\ height' = store.params.img_height

Publish(store) == PublishWith(store, estimatedTimeRemaining)

\* history: a handler publishes `store` while generation g is the one on show
Terminal(g, store) ==
    ended' = IF isGenerating /\ ~store.isGenerating THEN ended \cup {g} ELSE ended

-----------------------------------------------------------------------------
\* the page has been mounted: ImageGenerator and Settings have each called
\* loadSettings, and the settings file holds `stored`
InitWith(stored) ==
    /\ params = defaultParams
    /\ isGenerating = FALSE
    /\ progress = [current_step |-> 0, total_steps |-> 20, status |-> "Ready"]
    /\ currentResult = Null
    /\ error = Null
    /\ history = <<>>
    /\ prompt = <<>>
    /\ progressInterval = FALSE
    /\ genCalls = {}
    /\ cancelCalls = EmptyBag
    /\ pollCalls = EmptyBag
    /\ nextGen = 0
    /\ workerStep = 0
    /\ ended = {}
    /\ startTime = NoTime
    /\ estimatedTimeRemaining = <<>>
    /\ width = DefaultDimension
    /\ height = DefaultDimension
    /\ now = StartClock
    /\ console = {}
    /\ settingsStore = DefaultSettings
    /\ persisted = stored
    /\ loadCalls = 2
    /\ saveCalls = EmptyBag
    /\ nextSave = 0
    /\ lastSet = <<>>
    /\ isSaving = FALSE
    /\ panelError = Null
    /\ success = Null
    /\ liveTimers = 0
    /\ mounted = TRUE
    /\ nextResult = 0

Init == InitWith(DefaultSettings)

-----------------------------------------------------------------------------
(* ImageGenerator.svelte *)

\* <textarea bind:value={prompt} disabled={isGenerating}>
PromptInput(p) ==
    /\ ~isGenerating
    /\ p # prompt
    /\ prompt' = p
    /\ UNCHANGED <<storeVars, viewVars, genCalls, cancelCalls,
                   pollCalls, nextGen, workerStep, ended, now, console,
                   settingsVars,
                   panelVars, mounted, nextResult>>

\* handleGenerate, up to the await of invoke('generate_image')
handleGenerate ==
    /\ nextGen < MaxGen
    /\ IF Trim(prompt) = <<>>
       THEN /\ Publish(setError(Store, "Please enter a prompt"))
            /\ UNCHANGED <<genCalls, nextGen, workerStep>>
       ELSE /\ Publish(startGeneration(Store))
            /\ genCalls' = genCalls \cup
                  {[gen |-> nextGen + 1,
                    request |-> [prompt |-> prompt,
                                 img_width |-> params.img_width,
                                 img_height |-> params.img_height,
                                 num_imgs |-> 1,
                                 num_inference_steps |-> RequestInferenceSteps]]}
            /\ nextGen' = nextGen + 1
            /\ workerStep' = 0
    /\ UNCHANGED <<prompt, cancelCalls, pollCalls, ended, now, console,
                   settingsVars,
                   panelVars, mounted, nextResult>>

\* <button on:click={handleGenerate} disabled={isGenerating || !prompt.trim()}>
GenerateDisabled == isGenerating \/ Trim(prompt) = <<>>

\* a click on the Generate button
GenerateClicked == ~GenerateDisabled /\ handleGenerate

\* handleGenerate after the await: generate_image resolved
GenerateResolved(c) ==
    /\ c \in genCalls
    /\ genCalls' = genCalls \ {c}
    /\ Publish(setResult(Store, ImagePaths[c.gen]))
    /\ Terminal(c.gen, setResult(Store, ImagePaths[c.gen]))
    /\ UNCHANGED <<prompt, cancelCalls, pollCalls, nextGen, workerStep, now,
                   console, settingsVars,
                   panelVars, mounted, nextResult>>

\* handleGenerate after the await: generate_image rejected
GenerateRejected(c) ==
    /\ c \in genCalls
    /\ genCalls' = genCalls \ {c}
    /\ Publish(setError(Store, GenerateImageError))
    /\ Terminal(c.gen, setError(Store, GenerateImageError))
    /\ UNCHANGED <<prompt, cancelCalls, pollCalls, nextGen, workerStep, now,
                   console, settingsVars,
                   panelVars, mounted, nextResult>>

-----------------------------------------------------------------------------
(* Cancel: ImageGenerator.handleCancel and ProgressTracker.cancelGeneration. *)
(* Both buttons are rendered inside {#if isGenerating}.                      *)

CancelSources == {"ImageGenerator", "ProgressTracker"}

CancelledMessage(src) ==
    IF src = "ProgressTracker" THEN "Generation cancelled by user"
    ELSE "Generation cancelled"

CancelFailedMessage(src) ==
    IF src = "ProgressTracker" THEN "Failed to cancel generation"
    ELSE CancelGenerationError

CancelledMessages == {CancelledMessage(src) : src \in CancelSources}

\* the handler up to the await of invoke('cancel_generation')
CancelClicked(src) ==
    /\ isGenerating
    /\ src = "ProgressTracker" => mounted
    /\ BagCardinality(cancelCalls) < MaxCancel
    /\ cancelCalls' = cancelCalls (+) SetToBag({[src |-> src]})
    /\ UNCHANGED <<storeVars, prompt, viewVars, genCalls, pollCalls,
                   nextGen, workerStep, ended, now, console, settingsVars,
                   panelVars, mounted, nextResult>>

\* the handler after the await: cancel_generation resolved
CancelResolved(c) ==
    /\ BagIn(c, cancelCalls)
    /\ cancelCalls' = cancelCalls (-) SetToBag({c})
    /\ Publish(setError(Store, CancelledMessage(c.src)))
    /\ Terminal(nextGen, setError(Store, CancelledMessage(c.src)))
    /\ UNCHANGED <<prompt, genCalls, pollCalls, nextGen, workerStep, now,
                   console, settingsVars,
                   panelVars, mounted, nextResult>>

\* the handler after the await: cancel_generation rejected
CancelRejected(c) ==
    /\ BagIn(c, cancelCalls)
    /\ cancelCalls' = cancelCalls (-) SetToBag({c})
    /\ Publish(setError(Store, CancelFailedMessage(c.src)))
    /\ Terminal(nextGen, setError(Store, CancelFailedMessage(c.src)))
    /\ UNCHANGED <<prompt, genCalls, pollCalls, nextGen, workerStep, now,
                   console, settingsVars,
                   panelVars, mounted, nextResult>>

-----------------------------------------------------------------------------
(* AdvancedControls.svelte *)

\* updateInferenceSteps(value): the slider's on:input
updateInferenceSteps(value) ==
    /\ value # params.num_inference_steps
    /\ Publish(updateParams(Store, [num_inference_steps |-> value]))
    /\ UNCHANGED <<prompt, genCalls, cancelCalls, pollCalls, nextGen,
                   workerStep, ended, now, console, settingsVars,
                   panelVars, mounted, nextResult>>

-----------------------------------------------------------------------------
(* DimensionInput.svelte *)

\* the texts typed into a number field: nothing, and numbers below, inside
\* and above the allowed range
DimensionEntries ==
    {<<>>, <<"9", "6">>, <<"6", "4", "0">>, <<"5", "0", "0", "0">>}

\* NaN; also the null a number field is bound to while it is empty.  Like
\* NaN, it fails every range comparison.
NaN == -1

Digits == <<"0", "1", "2", "3", "4", "5", "6", "7", "8", "9">>

IsDigit(ch) == \E i \in 1..10 : Digits[i] = ch

DigitValue(ch) == (CHOOSE i \in 1..10 : Digits[i] = ch) - 1

RECURSIVE ParseDigits(_, _)
ParseDigits(s, acc) ==
    IF s = <<>> \/ ~IsDigit(Head(s)) THEN acc
    ELSE ParseDigits(Tail(s), acc * 10 + DigitValue(Head(s)))

\* parseInt(value) of an unsigned decimal text
parseInt(value) ==
    IF value = <<>> \/ ~IsDigit(Head(value)) THEN NaN ELSE ParseDigits(value, 0)

\* bind:value on <input type="number">: the number typed, null when empty
BoundNumber(value) == IF value = <<>> THEN NaN ELSE parseInt(value)

aspectRatios ==
    {[name |-> "Square", width |-> 512, height |-> 512],
     [name |-> "Portrait", width |-> 512, height |-> 682],
     [name |-> "Landscape", width |-> 682, height |-> 512],
     [name |-> "Wide", width |-> 768, height |-> 432]}

updateDimensions(store, newWidth, newHeight) ==
    updateDimension(updateDimension(store, "width", newWidth), "height", newHeight)

validateDimension(value) ==
    parseInt(value) # NaN /\ parseInt(value) >= MinDimension
                           /\ parseInt(value) <= MaxDimension

\* on:click of a preset button
applyAspectRatio(preset) ==
    /\ Publish(updateDimensions(Store, preset.width, preset.height))
    /\ UNCHANGED <<prompt, genCalls, cancelCalls, pollCalls, nextGen,
                   workerStep, ended, now, console, settingsVars,
                   panelVars, mounted, nextResult>>

\* the width field: bind:value assigns width as the text is typed, on:change
\* then runs handleWidthChange
handleWidthChange(value) ==
    /\ IF validateDimension(value)
       THEN Publish(updateDimensions(Store, parseInt(value), height))
       ELSE /\ width' = BoundNumber(value)
            /\ UNCHANGED <<storeVars, progressInterval, startTime,
                           estimatedTimeRemaining, height, liveTimers>>
    /\ UNCHANGED <<prompt, genCalls, cancelCalls, pollCalls, nextGen,
                   workerStep, ended, now, console, settingsVars,
                   panelVars, mounted, nextResult>>

\* the height field: bind:value assigns height, on:change then runs
\* handleHeightChange
handleHeightChange(value) ==
    /\ IF validateDimension(value)
       THEN Publish(updateDimensions(Store, width, parseInt(value)))
       ELSE /\ height' = BoundNumber(value)
            /\ UNCHANGED <<storeVars, progressInterval, startTime,
                           estimatedTimeRemaining, width, liveTimers>>
    /\ UNCHANGED <<prompt, genCalls, cancelCalls, pollCalls, nextGen,
                   workerStep, ended, now, console, settingsVars,
                   panelVars, mounted, nextResult>>

-----------------------------------------------------------------------------
(* settingsActions.loadSettings *)

\* what the settings file may hold when the application starts
StoredSettings ==
    {DefaultSettings,
     [DefaultSettings EXCEPT !.default_width = 768,
                             !.default_inference_steps = 30]}

\* loadSettings after the await: get_settings resolved
LoadResolved ==
    /\ loadCalls > 0
    /\ loadCalls' = loadCalls - 1
    /\ settingsStore' = persisted
    /\ Publish(updateParams(Store,
                  [img_width |-> persisted.default_width,
                   img_height |-> persisted.default_height,
                   num_inference_steps |-> persisted.default_inference_steps]))
    /\ UNCHANGED <<prompt, genCalls, cancelCalls, pollCalls, nextGen,
                   workerStep, ended, now, console, persisted, saveCalls,
                   nextSave, lastSet, panelVars, mounted, nextResult>>

\* loadSettings after the await: get_settings rejected (console.error)
LoadRejected ==
    /\ loadCalls > 0
    /\ loadCalls' = loadCalls - 1
    /\ console' = console \cup {"Failed to load settings:"}
    /\ UNCHANGED <<storeVars, viewVars, prompt, genCalls, cancelCalls,
                   pollCalls, nextGen, workerStep, ended, now, settingsStore,
                   persisted, saveCalls, nextSave, lastSet, panelVars,
                   mounted, nextResult>>

-----------------------------------------------------------------------------
(* settingsActions.saveSettings, updateSetting, resetToDefaults.  A pending  *)
(* save_settings call is a record of the settings it carries, the function  *)
(* that invoked it and, as history, settingsStore's value when the          *)
(* operation began.  The backend stores the settings when it answers.       *)

SettingKeys == {"default_width", "default_inference_steps"}

SettingValues == {30, 768}

\* the texts of the output directory field
OutputDirectories == {<<>>, <<" ", "a">>}

SaveSettingsError == "save_settings failed"

\* invoke('save_settings') by `op` of settingsActions, called from `caller`
SaveIssued(settings, op, caller) ==
    /\ nextSave < MaxSave
    /\ nextSave' = nextSave + 1
    /\ saveCalls' = saveCalls (+)
          SetToBag({[settings |-> settings, op |-> op, caller |-> caller,
                     before |-> settingsStore]})

\* updateSetting(key, value): settingsStore.update, whose callback calls
\* saveSettings(newSettings) and returns newSettings
updateSetting(key, value) ==
    LET newSettings == [settingsStore EXCEPT ![key] = value] IN
    /\ SaveIssued(newSettings, "saveSettings", "updateSetting")
    /\ settingsStore' = newSettings
    /\ lastSet' = (key :> value) @@ lastSet
    /\ UNCHANGED <<storeVars, viewVars, prompt, genCalls, cancelCalls,
                   pollCalls, nextGen, workerStep, ended, now, console,
                   persisted, loadCalls, panelVars, mounted, nextResult>>

\* Settings.svelte handleSaveSettings with outputDirectory typed in, up to
\* the await inside saveSettings; an empty directory returns before it
handleSaveSettings(outputDirectory) ==
    LET settings ==
          [settingsStore EXCEPT !.output_directory = Trim(outputDirectory)] IN
    /\ IF Trim(outputDirectory) = <<>>
       THEN /\ panelError' = "Output directory cannot be empty"
            /\ UNCHANGED <<isSaving, success, saveCalls, nextSave, lastSet>>
       ELSE /\ isSaving' = TRUE
            /\ panelError' = Null
            /\ success' = Null
            /\ SaveIssued(settings, "saveSettings", "handleSaveSettings")
            /\ lastSet' = settings
    /\ UNCHANGED <<storeVars, viewVars, prompt, genCalls, cancelCalls,
                   pollCalls, nextGen, workerStep, ended, now, console,
                   settingsStore, persisted, loadCalls, mounted, nextResult>>

\* <button on:click={handleSaveSettings} disabled={isSaving}>
SaveClicked(outputDirectory) ==
    ~isSaving /\ handleSaveSettings(outputDirectory)

\* settingsActions.resetToDefaults, up to the await of invoke('save_settings')
resetToDefaults ==
    /\ SaveIssued(DefaultSettings, "resetToDefaults", "handleResetToDefaults")
    /\ lastSet' = DefaultSettings

\* Settings.svelte handleResetToDefaults, up to the await inside
\* resetToDefaults
handleResetToDefaults ==
    /\ isSaving' = TRUE
    /\ panelError' = Null
    /\ success' = Null
    /\ resetToDefaults
    /\ UNCHANGED <<storeVars, viewVars, prompt, genCalls, cancelCalls,
                   pollCalls, nextGen, workerStep, ended, now, console,
                   settingsStore, persisted, loadCalls, mounted, nextResult>>

\* <button on:click={handleResetToDefaults} disabled={isSaving}>
ResetClicked == ~isSaving /\ handleResetToDefaults

\* saveSettings / resetToDefaults after the await: save_settings resolved;
\* a handler of the panel that awaited the action then reports success
SaveResolved(c) ==
    /\ BagIn(c, saveCalls)
    /\ saveCalls' = saveCalls (-) SetToBag({c})
    /\ persisted' = c.settings
    /\ settingsStore' = c.settings
    /\ IF c.caller = "updateSetting"
       THEN UNCHANGED panelVars
       ELSE /\ success' = (IF c.caller = "handleResetToDefaults"
                           THEN "Settings reset to defaults!"
                           ELSE "Settings saved successfully!")
            /\ isSaving' = FALSE
            /\ UNCHANGED panelError
    /\ UNCHANGED <<storeVars, viewVars, prompt, genCalls, cancelCalls,
                   pollCalls, nextGen, workerStep, ended, now, console,
                   loadCalls, nextSave, lastSet, mounted, nextResult>>

\* a handler of the panel without its finally block
SaveRejectedKeepsSaving(c) ==
    /\ BagIn(c, saveCalls)
    /\ saveCalls' = saveCalls (-) SetToBag({c})
    /\ console' = console \cup
          {IF c.op = "resetToDefaults" THEN "Failed to reset settings:"
           ELSE "Failed to save settings:"}
    /\ IF c.caller = "updateSetting"
       THEN UNCHANGED panelVars
       ELSE /\ panelError' = SaveSettingsError
            /\ UNCHANGED <<isSaving, success>>
    /\ UNCHANGED <<storeVars, viewVars, prompt, genCalls, cancelCalls,
                   pollCalls, nextGen, workerStep, ended, now, settingsStore,
                   persisted, loadCalls, nextSave, lastSet, mounted,
                   nextResult>>

\* saveSettings / resetToDefaults after the await: save_settings rejected
\* (console.error, rethrown); a handler of the panel that awaited the action
\* then reports the error
SaveRejected(c) ==
    /\ BagIn(c, saveCalls)
    /\ saveCalls' = saveCalls (-) SetToBag({c})
    /\ console' = console \cup
          {IF c.op = "resetToDefaults" THEN "Failed to reset settings:"
           ELSE "Failed to save settings:"}
    /\ IF c.caller = "updateSetting"
       THEN UNCHANGED panelVars
       ELSE /\ panelError' = SaveSettingsError
            /\ isSaving' = FALSE
            /\ UNCHANGED success
    /\ UNCHANGED <<storeVars, viewVars, prompt, genCalls, cancelCalls,
                   pollCalls, nextGen, workerStep, ended, now, settingsStore,
                   persisted, loadCalls, nextSave, lastSet, mounted,
                   nextResult>>

-----------------------------------------------------------------------------
(* The backend behind get_generation_progress *)

\* the worker of the generation started last moves on to a later one of `steps`
WorkerAdvanceTo(steps) ==
    /\ genCalls # {}
    /\ \E s \in steps : s > workerStep /\ workerStep' = s
    /\ UNCHANGED <<storeVars, prompt, viewVars, genCalls, cancelCalls,
                   pollCalls, nextGen, ended, now, console, settingsVars,
                   panelVars, mounted, nextResult>>

WorkerAdvance == WorkerAdvanceTo(WorkerSteps)

\* the steps sampled where the time estimate is followed
TimerWorkerSteps == {0, 5, RequestInferenceSteps}

\* the snapshot get_generation_progress answers with
ProgressSnapshot ==
    [current_step |-> workerStep, total_steps |-> RequestInferenceSteps,
     status |-> "Generating"]

\* snapshots of a backend that keeps no invariant between its fields
AnySnapshots ==
    [current_step : {-1, RequestInferenceSteps + 1},
     total_steps : {RequestInferenceSteps}, status : {"Generating"}]

-----------------------------------------------------------------------------
(* ProgressTracker.svelte: the interval callback of startProgressPolling *)

\* Math.ceil(a / b) for b > 0
CeilDiv(a, b) == -((-a) \div b)

\* formatTime of the quotient milliseconds / divisor: the text's numbers and
\* unit letters
formatTime(milliseconds, divisor) ==
    LET seconds == CeilDiv(milliseconds, divisor * 1000) IN
    IF seconds < 60 THEN <<seconds, "s">>
    ELSE IF seconds < 3600 THEN <<seconds \div 60, "m", seconds % 60, "s">>
    ELSE <<seconds \div 3600, "h", (seconds % 3600) \div 60, "m">>

\* updateTimeEstimate: the new estimatedTimeRemaining.  It reads the
\* component's `progress`, which the reactive statement of line 7 assigns
\* when Svelte next flushes: during the poll callback it is still the
\* progress the store held before the callback's updateProgress.
updateTimeEstimate ==
    IF startTime = NoTime \/ progress.current_step = 0 THEN <<>>
    ELSE IF progress.current_step > 0
         THEN formatTime((now - startTime)
                            * (progress.total_steps - progress.current_step),
                         progress.current_step)
         ELSE estimatedTimeRemaining

\* the timer fires: the callback up to the await of invoke('get_generation_progress')
PollIssued(snap) ==
    /\ progressInterval
    /\ BagCardinality(pollCalls) < MaxPoll
    /\ pollCalls' = pollCalls (+) SetToBag({[snap |-> snap]})
    /\ UNCHANGED <<storeVars, prompt, viewVars, genCalls, cancelCalls,
                   nextGen, workerStep, ended, now, console, settingsVars,
                   panelVars, mounted, nextResult>>

PollTick == PollIssued(ProgressSnapshot)

PollTickAnySnapshot == \E snap \in AnySnapshots : PollIssued(snap)

\* the callback after the await: get_generation_progress resolved
PollResolved(c) ==
    /\ BagIn(c, pollCalls)
    /\ pollCalls' = pollCalls (-) SetToBag({c})
    /\ PublishWith(updateProgress(Store, c.snap), updateTimeEstimate)
    /\ UNCHANGED <<prompt, genCalls, cancelCalls, nextGen, workerStep, ended,
                   now, console, settingsVars,
                   panelVars, mounted, nextResult>>

\* a catch branch that reports the failure through the store
PollRejectedSetsError(c) ==
    /\ BagIn(c, pollCalls)
    /\ pollCalls' = pollCalls (-) SetToBag({c})
    /\ console' = console \cup {"Failed to get progress:"}
    /\ Publish(setError(Store, "Failed to get progress"))
    /\ UNCHANGED <<prompt, genCalls, cancelCalls, nextGen, workerStep, ended,
                   now, settingsVars,
                   panelVars, mounted, nextResult>>

\* the callback after the await: get_generation_progress rejected (console.error)
PollRejected(c) ==
    /\ BagIn(c, pollCalls)
    /\ pollCalls' = pollCalls (-) SetToBag({c})
    /\ console' = console \cup {"Failed to get progress:"}
    /\ UNCHANGED <<storeVars, prompt, viewVars, genCalls, cancelCalls,
                   nextGen, workerStep, ended, now, settingsVars,
                   panelVars, mounted, nextResult>>

\* time passes: Date.now() moves on by one poll interval
Tick ==
    /\ now < StartClock + MaxTicks * PollInterval
    /\ now' = now + PollInterval
    /\ UNCHANGED <<storeVars, viewVars, prompt, genCalls, cancelCalls,
                   pollCalls, nextGen, workerStep, ended, console,
                   settingsVars,
                   panelVars, mounted, nextResult>>

\* ProgressTracker is taken off the page: onDestroy calls stopProgressPolling,
\* and its reactive statements do not run again
onDestroy ==
    /\ mounted
    /\ mounted' = FALSE
    /\ progressInterval' = FALSE
    /\ liveTimers' = IF progressInterval THEN liveTimers - 1 ELSE liveTimers
    /\ startTime' = NoTime
    /\ estimatedTimeRemaining' = <<>>
    /\ UNCHANGED <<storeVars, width, height, prompt, genCalls, cancelCalls,
                   pollCalls, nextGen, workerStep, ended, now, console,
                   settingsVars, panelVars, nextResult>>

-----------------------------------------------------------------------------
(* generationActions called directly, as any component may *)

\* one call of an action of generationActions that publishes `store`
StoreCall(store) ==
    /\ Publish(store)
    /\ UNCHANGED <<prompt, genCalls, cancelCalls, pollCalls, nextGen,
                   workerStep, ended, now, console, settingsVars, panelVars,
                   mounted>>

ProgressReports ==
    {[current_step |-> 5, total_steps |-> RequestInferenceSteps,
      status |-> "Generating..."]}

CallUpdateParams ==
    \E p \in Prompts \ {<<>>} :
        StoreCall(updateParams(Store, [prompt |-> p])) /\ UNCHANGED nextResult

CallUpdateDimension ==
    \E dimension \in {"width", "height"} :
        StoreCall(updateDimension(Store, dimension, 768))
            /\ UNCHANGED nextResult

CallStartGeneration ==
    StoreCall(startGeneration(Store)) /\ UNCHANGED nextResult

CallUpdateProgress ==
    \E p \in ProgressReports :
        StoreCall(updateProgress(Store, p)) /\ UNCHANGED nextResult

\* the results arrive numbered in the order of their arrival
CallSetResult ==
    /\ nextResult < MaxResults
    /\ nextResult' = nextResult + 1
    /\ StoreCall(setResult(Store, ImagePath(nextResult + 1)))

CallSetError ==
    StoreCall(setError(Store, GenerateImageError)) /\ UNCHANGED nextResult

CallReset ==
    StoreCall(reset(Store)) /\ UNCHANGED nextResult

-----------------------------------------------------------------------------
Next ==
    \/ \E p \in Prompts : PromptInput(p)
    \/ GenerateClicked
    \/ \E c \in genCalls : GenerateResolved(c)
    \/ \E c \in genCalls : GenerateRejected(c)
    \/ \E src \in CancelSources : CancelClicked(src)
    \/ \E c \in BagToSet(cancelCalls) : CancelResolved(c)
    \/ \E c \in BagToSet(cancelCalls) : CancelRejected(c)
    \/ WorkerAdvance
    \/ PollTick
    \/ \E c \in BagToSet(pollCalls) : PollResolved(c)
    \/ \E c \in BagToSet(pollCalls) : PollRejected(c)

Spec == Init /\ [][Next]_vars

\* the same program in front of a backend whose snapshots are arbitrary
NextAnySnapshot ==
    \/ Next
    \/ PollTickAnySnapshot
    \/ \E v \in InferenceStepChoices : updateInferenceSteps(v)

SpecAnySnapshot == Init /\ [][NextAnySnapshot]_vars

\* ImageGenerator with its DimensionInput, started on any settings file
InitAnyStored == \E stored \in StoredSettings : InitWith(stored)

NextDimensions ==
    \/ \E p \in Prompts : PromptInput(p)
    \/ GenerateClicked
    \/ \E c \in genCalls : GenerateResolved(c)
    \/ \E c \in genCalls : GenerateRejected(c)
    \/ \E value \in DimensionEntries : handleWidthChange(value)
    \/ \E value \in DimensionEntries : handleHeightChange(value)
    \/ \E preset \in aspectRatios : applyAspectRatio(preset)
    \/ LoadResolved
    \/ LoadRejected

SpecDimensions == InitAnyStored /\ [][NextDimensions]_vars

\* the settings store and the calls that load and save it
NextSettings ==
    \/ LoadResolved
    \/ LoadRejected
    \/ \E key \in SettingKeys, value \in SettingValues : updateSetting(key, value)
    \/ \E dir \in OutputDirectories : SaveClicked(dir)
    \/ ResetClicked
    \/ \E c \in BagToSet(saveCalls) : SaveResolved(c)
    \/ \E c \in BagToSet(saveCalls) : SaveRejected(c)

SpecSettings == Init /\ [][NextSettings]_vars

\* handleGenerate called whatever the state of the Generate button
NextHandlers ==
    \/ \E p \in Prompts : PromptInput(p)
    \/ handleGenerate
    \/ \E c \in genCalls : GenerateResolved(c)
    \/ \E c \in genCalls : GenerateRejected(c)
    \/ \E src \in CancelSources : CancelClicked(src)
    \/ \E c \in BagToSet(cancelCalls) : CancelResolved(c)
    \/ \E c \in BagToSet(cancelCalls) : CancelRejected(c)

SpecHandlers == Init /\ [][NextHandlers]_vars

\* a generation and its ProgressTracker while time passes
NextTimer ==
    \/ \E p \in Prompts : PromptInput(p)
    \/ GenerateClicked
    \/ \E c \in genCalls : GenerateResolved(c)
    \/ WorkerAdvanceTo(TimerWorkerSteps)
    \/ PollTick
    \/ \E c \in BagToSet(pollCalls) : PollResolved(c)
    \/ Tick

SpecTimer == Init /\ [][NextTimer]_vars

\* the Settings panel alone
NextPanel ==
    \/ LoadResolved
    \/ LoadRejected
    \/ \E dir \in OutputDirectories : SaveClicked(dir)
    \/ ResetClicked
    \/ \E c \in BagToSet(saveCalls) : SaveResolved(c)
    \/ \E c \in BagToSet(saveCalls) : SaveRejected(c)

SpecPanel == Init /\ [][NextPanel]_vars

\* the backend answers every save_settings call
SaveSettled == \E c \in BagToSet(saveCalls) : SaveResolved(c) \/ SaveRejected(c)

SpecPanelFair == SpecPanel /\ WF_vars(SaveSettled)

\* generations, cancellations and polls while time passes and ProgressTracker
\* may be taken off the page
NextTracker ==
    \/ \E p \in Prompts : PromptInput(p)
    \/ GenerateClicked
    \/ \E c \in genCalls : GenerateResolved(c)
    \/ \E c \in genCalls : GenerateRejected(c)
    \/ \E src \in CancelSources : CancelClicked(src)
    \/ \E c \in BagToSet(cancelCalls) : CancelResolved(c)
    \/ \E c \in BagToSet(cancelCalls) : CancelRejected(c)
    \/ PollTick
    \/ \E c \in BagToSet(pollCalls) : PollResolved(c)
    \/ Tick
    \/ onDestroy

SpecTracker == Init /\ [][NextTracker]_vars

\* the store driven through its interface alone
NextStore ==
    \/ CallUpdateParams
    \/ CallUpdateDimension
    \/ CallStartGeneration
    \/ CallUpdateProgress
    \/ CallSetResult
    \/ CallSetError
    \/ CallReset

SpecStore == Init /\ [][NextStore]_vars

-----------------------------------------------------------------------------
(* Properties *)

\* C1: at most one generate_image invocation is in flight (started and not
\* yet resolved or rejected) in every reachable state.
C1_AtMostOneGenerateInFlight == Cardinality(genCalls) <= 1

\* C2: a start request submitted while a generation is still in flight is
\* rejected and leaves isGenerating, progress, currentResult and history as
\* they were.
C2_StartWhileActiveRejected ==
    [][(GenerateClicked /\ genCalls # {})
          => UNCHANGED <<isGenerating, progress, currentResult, history>>]_vars

\* C3: a cancel request made while a generation is running puts the store
\* into the cancelled terminal state (isGenerating = false with a
\* cancellation message) at once, without waiting for any response.
C3_CancelIsImmediate ==
    [][\A src \in CancelSources :
          CancelClicked(src) => (~isGenerating' /\ error' \in CancelledMessages)]_vars

\* the store shows the generation of the pending call c as cancelled
ShownCancelled(c) ==
    ~isGenerating /\ error \in CancelledMessages /\ c.gen = nextGen

\* C4: once a generation has been cancelled, its result or error arriving
\* afterwards changes neither the cancellation message nor currentResult
\* nor history.
C4_LateResponseDoesNotOverride ==
    [][\A c \in genCalls :
          ((GenerateResolved(c) \/ GenerateRejected(c)) /\ ShownCancelled(c))
             => UNCHANGED <<error, currentResult, history>>]_vars

\* C5: the terminal transition (isGenerating going from true to false through
\* setResult or setError) happens at most once for each started generation:
\* the response of a generation whose end the store has already shown does
\* not end a generation again.
C5_TerminalAtMostOnce ==
    [][\A c \in genCalls :
          ((GenerateResolved(c) \/ GenerateRejected(c)) /\ c.gen \in ended)
             => ~(isGenerating /\ ~isGenerating')]_vars

\* C6: a cancel that takes effect when no generation is active (the store is
\* idle and no generate_image call is pending) leaves isGenerating, error,
\* progress, currentResult and history unchanged.
C6_IdleCancelHasNoSideEffect ==
    [][\A c \in BagToSet(cancelCalls) :
          ((CancelResolved(c) \/ CancelRejected(c)) /\ ~isGenerating /\ genCalls = {})
             => UNCHANGED <<isGenerating, error, progress, currentResult, history>>]_vars

\* C7: a start with a non-blank prompt on an idle store yields, in the same
\* step, isGenerating = true, error = null, progress.current_step = 0 and
\* the status 'Initializing...'.
C7_StartEntersInitializing ==
    [][(handleGenerate /\ ~isGenerating /\ Trim(prompt) # <<>>)
          => /\ isGenerating'
             /\ error' = Null
             /\ progress'.current_step = 0
             /\ progress'.status = "Initializing..."]_vars

\* a second generation has been started after the first one failed or was
\* cancelled, and nothing has answered yet
C7_Witness ==
    /\ nextGen = 2 /\ genCalls # {} /\ \A c \in genCalls : c.gen = 2
    /\ history = <<>>
    /\ isGenerating /\ error = Null
    /\ progress.current_step = 0 /\ progress.status = "Initializing..."

\* C8: after a progress response has been applied, progress.current_step in
\* the store is the step of that response, the last one received.
C8_PublishedStepIsLastReceived ==
    [][\A c \in BagToSet(pollCalls) :
          PollResolved(c) => progress'.current_step = c.snap.current_step]_vars

\* the last step of the backend has been received and published while the
\* generation is still running
C8_Witness ==
    /\ isGenerating
    /\ progress.status = "Generating"
    /\ progress.current_step = RequestInferenceSteps
    /\ pollCalls = EmptyBag

\* C9: within one generation the progress.current_step shown by the store
\* never decreases.
C9_StepNeverDecreases ==
    [][(isGenerating /\ isGenerating' /\ nextGen' = nextGen)
          => progress'.current_step >= progress.current_step]_vars

\* C10: 0 <= progress.current_step <= progress.total_steps in every
\* reachable state of the store.
C10_StepWithinTotal ==
    0 <= progress.current_step /\ progress.current_step <= progress.total_steps

\* C11: while a generation is running, progress.total_steps is the
\* num_inference_steps sent in the generate_image request of that generation.
C11_TotalStepsFromRequest ==
    \A c \in genCalls :
        (isGenerating /\ c.gen = nextGen)
            => progress.total_steps = c.request.num_inference_steps

MinInferenceSteps == 10
MaxInferenceSteps == 50

DimensionInRange(n) == n >= MinDimension /\ n <= MaxDimension

\* C12: every request handed to generate_image has img_width and img_height
\* within 256..1024 and num_inference_steps within 10..50.
C12_RequestInRange ==
    \A c \in genCalls :
        /\ DimensionInRange(c.request.img_width)
        /\ DimensionInRange(c.request.img_height)
        /\ c.request.num_inference_steps >= MinInferenceSteps
        /\ c.request.num_inference_steps <= MaxInferenceSteps

\* C13: whatever is entered into the DimensionInput fields and whichever
\* presets are clicked, params.img_width and params.img_height of the store
\* stay within 256..1024.
C13_StoredDimensionsInRange ==
    DimensionInRange(params.img_width) /\ DimensionInRange(params.img_height)

\* a prompt that is empty or made of spaces only
IsBlank(s) == \A i \in 1..Len(s) : s[i] = " "

\* C14: handleGenerate called with an empty or whitespace-only prompt does
\* not invoke generate_image, leaves isGenerating false and sets the error
\* 'Please enter a prompt', all in the same step.
C14_BlankPromptRejected ==
    [][(handleGenerate /\ IsBlank(prompt))
          => /\ genCalls' = genCalls
             /\ nextGen' = nextGen
             /\ ~isGenerating'
             /\ error' = "Please enter a prompt"]_vars

\* a whitespace-only prompt has been submitted and rejected before any
\* generation was started
C14_Witness ==
    /\ prompt = <<" ">>
    /\ error = "Please enter a prompt"
    /\ ~isGenerating /\ genCalls = {} /\ nextGen = 0

\* C15: whenever generate_image rejects, the store ends with isGenerating =
\* false and a non-null error message.
C15_FailureIsTerminal ==
    [][\A c \in genCalls :
          GenerateRejected(c) => (~isGenerating' /\ error' # Null)]_vars

\* the only generation started has failed and the store shows its error
C15_Witness ==
    /\ nextGen = 1 /\ genCalls = {} /\ cancelCalls = EmptyBag
    /\ ~isGenerating /\ error = GenerateImageError

\* the statuses of a generation that is still running
RunningStatuses == {"Initializing...", "Generating"}

\* C16: in the step that ends a generation the progress published no longer
\* shows a running status (a final snapshot reflecting the terminal state
\* has been emitted) and the poll timer is stopped.
C16_FinalSnapshotThenStop ==
    [][(isGenerating /\ ~isGenerating')
          => (progress'.status \notin RunningStatuses /\ ~progressInterval')]_vars

\* C17: the estimate published with a progress response is
\* elapsed / current_step * (total_steps - current_step) of that response,
\* with elapsed counted from the start of polling; it is empty when the
\* response's current_step is 0, and never negative.
C17_EstimateFromSnapshot ==
    [][\A c \in BagToSet(pollCalls) :
          (PollResolved(c) /\ isGenerating)
             => /\ estimatedTimeRemaining' =
                      IF c.snap.current_step = 0 THEN <<>>
                      ELSE formatTime((now - startTime)
                                         * (c.snap.total_steps - c.snap.current_step),
                                      c.snap.current_step)
                /\ (estimatedTimeRemaining' = <<>>
                       \/ estimatedTimeRemaining'[1] >= 0)]_vars

\* C18: when a save_settings call fails, settingsStore holds the value it
\* had before the operation that issued the call; when a get_settings call
\* fails, settingsStore is unchanged.
C18_FailedSaveLeavesSettings ==
    [][/\ \A c \in BagToSet(saveCalls) :
             SaveRejected(c) => settingsStore' = c.before
       /\ LoadRejected => settingsStore' = settingsStore]_vars

\* C19: once every save_settings call has completed, none having failed,
\* settingsStore equals the settings the backend stored last and holds, for
\* every field, the value the calls gave it last.
C19_NoSettingsUpdateLost ==
    (saveCalls = EmptyBag /\ console = {})
        => /\ settingsStore = persisted
           /\ \A key \in DOMAIN lastSet : settingsStore[key] = lastSet[key]

\* C20: when get_generation_progress rejects, isGenerating, progress, error,
\* currentResult and history are unchanged and the poll timer is as it was.
C20_PollFailureIsContained ==
    [][\A c \in BagToSet(pollCalls) :
          PollRejected(c)
             => UNCHANGED <<isGenerating, progress, error, currentResult,
                            history, progressInterval>>]_vars

\* a poll has failed and the generation is still running with its timer
C20_Witness ==
    /\ "Failed to get progress:" \in console
    /\ isGenerating /\ progressInterval /\ error = Null
    /\ genCalls # {}

\* C21: after any sequence of setResult calls the history holds the results
\* in reverse order of arrival, the most recent first, and never more than
\* the last 50 of them: the 51st arrival drops exactly the oldest entry.
C21_HistoryKeepsLastFifty ==
    /\ Len(history) = Min(nextResult, HistoryLimit)
    /\ \A i \in 1..Len(history) : history[i] = ImagePath(nextResult - i + 1)

C21_Witness ==
    /\ nextResult = HistoryLimit + 1
    /\ Len(history) = HistoryLimit
    /\ history[1] = ImagePath(HistoryLimit + 1)
    /\ history[HistoryLimit] = ImagePath(2)

\* C22: the poll timer lives exactly while the store says a generation is
\* running and ProgressTracker is mounted: never more than one interval
\* timer, none once isGenerating is false or the component is destroyed, and
\* a generation that starts gets a timer whose startTime is the time of
\* that start.
C22_TimerFollowsGeneration ==
    /\ [](/\ liveTimers <= 1
          /\ liveTimers = (IF isGenerating /\ mounted THEN 1 ELSE 0)
          /\ progressInterval <=> liveTimers = 1
          /\ ~progressInterval => startTime = NoTime)
    /\ [][(~isGenerating /\ isGenerating' /\ mounted)
            => (liveTimers' = 1 /\ startTime' = now)]_vars

\* a second generation has started after time has passed: its timer carries
\* the later start
C22_Witness ==
    /\ nextGen = 2
    /\ isGenerating
    /\ liveTimers = 1
    /\ startTime > StartClock

\* C23: a get_generation_progress response that arrives when the generation
\* it was asked for has ended (polls are only sent while isGenerating is
\* true, so isGenerating = false at the arrival means that generation is
\* over) leaves the store as it is.
C23_LateProgressIgnored ==
    [][\A c \in BagToSet(pollCalls) :
          (PollResolved(c) /\ ~isGenerating) => UNCHANGED storeVars]_vars

\* the estimate that updateTimeEstimate's arithmetic gives for `snap`
EstimateOf(snap) ==
    IF startTime = NoTime \/ snap.current_step <= 0 THEN <<>>
    ELSE formatTime((now - startTime) * (snap.total_steps - snap.current_step),
                    snap.current_step)

\* C24: after a successful poll that brought a snapshot other than the one
\* on show, the estimate displayed is the one computed from the steps of the
\* snapshot this poll returned, not from those of the poll before it.
C24_EstimateFromSamePoll ==
    [][\A c \in BagToSet(pollCalls) :
          (PollResolved(c) /\ progressInterval /\ c.snap # progress)
             => estimatedTimeRemaining' = EstimateOf(c.snap)]_vars

\* C25: currentResult is null or the first entry of history in every
\* reachable state, and a step that changes currentResult or history is a
\* setResult: the other actions of generationActions, reset included, leave
\* both as they are.
C25_ResultHeadsHistory ==
    /\ [](currentResult = Null
            \/ (history # <<>> /\ currentResult = history[1]))
    /\ [][(currentResult' # currentResult \/ history' # history)
            => CallSetResult]_vars

\* two results in, a generation started after them and a progress report
\* received: the second result is still on show and heads the history
C25_Witness ==
    /\ isGenerating
    /\ progress.current_step = 5
    /\ currentResult = ImagePath(2)
    /\ history = <<ImagePath(2), ImagePath(1)>>

\* C26: startGeneration leaves params, currentResult and history as they
\* are, and setError leaves params, progress, currentResult and history as
\* they are.
C26_StartAndErrorKeepTheRest ==
    /\ [][CallStartGeneration
            => UNCHANGED <<params, currentResult, history>>]_vars
    /\ [][CallSetError
            => UNCHANGED <<params, progress, currentResult, history>>]_vars

\* a generation started with parameters that are not the defaults has
\* failed: the parameters, the progress of the start and the earlier result
\* are all still there
C26_Witness ==
    /\ ~isGenerating
    /\ error = GenerateImageError
    /\ progress.status = "Initializing..."
    /\ params.prompt # <<>>
    /\ params.img_width = 768
    /\ currentResult = ImagePath(1)

\* C27: the Settings panel never holds an error message and a success message
\* at once.
C27_ErrorXorSuccess == ~(panelError # Null /\ success # Null)

\* the pending save_settings calls a handler of the panel is waiting for
PanelCalls == {c \in BagToSet(saveCalls) : c.caller # "updateSetting"}

\* C28: a save or reset that has been started leaves isSaving = false in the
\* end, whether save_settings resolves or rejects; a Save click with an empty
\* output directory neither sets isSaving nor calls save_settings; and while
\* isSaving is true the panel starts no other save or reset, so that exactly
\* one call of the panel is pending.
C28_SavingEndsAndExcludes ==
    /\ isSaving ~> ~isSaving
    /\ [][\A c \in PanelCalls :
            (SaveResolved(c) \/ SaveRejected(c)) => ~isSaving']_vars
    /\ [][\A dir \in OutputDirectories :
            (SaveClicked(dir) /\ IsBlank(dir))
               => (~isSaving' /\ UNCHANGED <<saveCalls, nextSave>>)]_vars
    /\ [][isSaving => nextSave' = nextSave]_vars
    /\ [](Cardinality(PanelCalls) = (IF isSaving THEN 1 ELSE 0)
           /\ \A c \in PanelCalls : CopiesIn(c, saveCalls) = 1)

\* a save has failed, the next one has been started and is still pending
C28_Witness ==
    /\ isSaving
    /\ "Failed to save settings:" \in console
    /\ nextSave = 2
    /\ PanelCalls # {}

=============================================================================
